---- MODULE Spec2Model ----
(***************************************************************************)
(* A model of the mictils crate (src/lib.rs): the HashCode, Bind, Hold and *)
(* SymlinkExists extension traits, each exercised by a caller that draws   *)
(* its arguments from small sets.                                          *)
(***************************************************************************)
EXTENDS Integers, Sequences, FiniteSets, TLC

VARIABLES
    fs,         \* the filesystem: path -> [kind, target, fault]
    pc,         \* position of the exists_symlink call: "idle", "follow", "done"
    callPath,   \* the path exists_symlink was called on (0 when idle)
    lstatRes,   \* what self.symlink_metadata() returned to the call
    queries,    \* the metadata queries the call has issued, in order, each
                \* with whether it succeeded
    result,     \* [raised, value]: what the call gave its caller
    entry0,     \* the entry at callPath when the call started
    stat0,      \* what the following query gave for callPath when the call started
    changed,    \* TRUE once the filesystem was changed during the call
    env,        \* what the closures can reach: [buf, out, data, writer,
                \* poisoned, calls] (a captured String, stdout, the RwLock's
                \* value, whether its write guard is alive, whether it is
                \* poisoned, and the closure invocations of the current call)
    env0,       \* env as it was when the current combinator call started
    cpc,        \* the caller: "idle", "returned", "panicked", "read"
    op,         \* the combinator called: "bind", "hold_ref", "hold", "none"
    arg,        \* the value the combinator was called on
    fn,         \* the closure it was called with
    ret,        \* the value the combinator returned (NoValue if none)
    payload,    \* the payload of the panic that left the combinator
    observed,   \* what rwlock.read() gave the caller
    held,       \* the hashable values the caller holds: slot -> value
    assigned,   \* slot -> the value the slot was last assigned
    codes       \* slot -> the digests hashcode() has given for the value the
                \* slot holds, since the slot was last assigned

fsVars == <<fs, pc, callPath, lstatRes, queries, result, entry0, stat0, changed>>

combVars == <<env, env0, cpc, op, arg, fn, ret, payload, observed>>

hashVars == <<held, assigned, codes>>

vars == <<fsVars, combVars, hashVars>>

\* What an action of one trait leaves alone: the state of the other traits.
exceptFs == <<combVars, hashVars>>
exceptComb == <<fsVars, hashVars>>
exceptHash == <<fsVars, combVars>>

(***************************************************************************)
(* SymlinkExists                                                           *)
(***************************************************************************)

\* Number of paths of the modelled filesystem.
NumPaths == 2

Paths == 1..NumPaths

\* Why a lookup of a path is refused although an entry may be there:
\* permission denied on the way to it, or an I/O error of the medium.
Faults == {"EACCES", "EIO"}

NoEntry == [kind |-> "absent", target |-> 0, fault |-> "none"]

Ok(symlink) == [ok |-> TRUE, is_symlink |-> symlink, err |-> "none"]

Err(e) == [ok |-> FALSE, is_symlink |-> FALSE, err |-> e]

NoResult == [raised |-> FALSE, value |-> FALSE]

\* lstat: the metadata of the entry at p itself, a trailing symlink not followed.
Lstat(f, p) ==
    IF f[p].fault # "none" THEN Err(f[p].fault)
    ELSE IF f[p].kind = "absent" THEN Err("ENOENT")
    ELSE Ok(f[p].kind = "symlink")

\* stat: the metadata of what p resolves to, following at most n symlinks
\* (a chain that is longer than the number of paths is a loop).
RECURSIVE Follow(_, _, _)
Follow(f, p, n) ==
    LET m == Lstat(f, p)
    IN  IF ~m.ok THEN m
        ELSE IF ~m.is_symlink THEN m
        ELSE IF n = 0 THEN Err("ELOOP")
        ELSE Follow(f, f[p].target, n - 1)

Stat(f, p) == Follow(f, p, NumPaths)

\* self.symlink_metadata(); the variant is self.metadata(), which follows.
SymlinkMetadataFollowing(f, p) == Stat(f, p)
SymlinkMetadata(f, p) == Lstat(f, p)

\* self.exists(): whether the following query succeeds.
Exists(f, p) == Stat(f, p).ok

\* is_ok_and runs its closure only on Ok, and || evaluates self.exists() only
\* when m.is_symlink() is false.  The variant has no short circuit.
NeedsFollowAlways(m) == m.ok
NeedsFollow(m) == m.ok /\ ~m.is_symlink

\* .is_ok_and(|m| m.is_symlink() || self.exists()), e being what self.exists()
\* gave when it was evaluated.  The variants: && written for ||, and
\* unwrap() written for is_ok_and.
IsOkAndConj(m, e) == [raised |-> FALSE, value |-> m.ok /\ (m.is_symlink /\ e)]
IsOkAndUnwrap(m, e) == [raised |-> ~m.ok, value |-> m.ok /\ (m.is_symlink \/ e)]
IsOkAnd(m, e) == [raised |-> FALSE, value |-> m.ok /\ (m.is_symlink \/ e)]

FsInit ==
    /\ fs \in [Paths -> {NoEntry}]
    /\ pc = "idle"
    /\ callPath = 0
    /\ lstatRes = Err("none")
    /\ queries = <<>>
    /\ result = NoResult
    /\ entry0 = NoEntry
    /\ stat0 = Err("none")
    /\ changed = FALSE

\* The caller enters exists_symlink(p); the no-follow query is issued.
CallExistsSymlink(p) ==
    /\ pc = "idle"
    /\ LET m == SymlinkMetadata(fs, p)
       IN  /\ lstatRes' = m
           /\ IF NeedsFollow(m)
              THEN pc' = "follow" /\ result' = NoResult
              ELSE pc' = "done" /\ result' = IsOkAnd(m, FALSE)
    /\ callPath' = p
    /\ queries' = <<[q |-> "lstat", ok |-> SymlinkMetadata(fs, p).ok]>>
    /\ entry0' = fs[p]
    /\ stat0' = Stat(fs, p)
    /\ changed' = FALSE
    /\ UNCHANGED <<fs, exceptFs>>

\* The closure's self.exists(): the following query is issued, and the call ends.
FollowExists ==
    /\ pc = "follow"
    /\ LET e == Exists(fs, callPath)
       IN  /\ result' = IsOkAnd(lstatRes, e)
           /\ queries' = Append(queries, [q |-> "stat", ok |-> e])
    /\ pc' = "done"
    /\ UNCHANGED <<fs, callPath, lstatRes, entry0, stat0, changed, exceptFs>>

\* The caller takes the result; the next call may start.
ReturnExistsSymlink ==
    /\ pc = "done"
    /\ pc' = "idle"
    /\ callPath' = 0
    /\ lstatRes' = Err("none")
    /\ queries' = <<>>
    /\ result' = NoResult
    /\ entry0' = NoEntry
    /\ stat0' = Err("none")
    /\ changed' = FALSE
    /\ UNCHANGED <<fs, exceptFs>>

\* Another process changes the entry at p, possibly between the call's queries.
Mutate(p, e) ==
    /\ pc # "done"
    /\ fs[p] # e
    /\ fs' = [fs EXCEPT ![p] = e]
    /\ changed' = (pc # "idle")
    /\ UNCHANGED <<pc, callPath, lstatRes, queries, result, entry0, stat0, exceptFs>>

CreateFile(p) ==
    /\ fs[p].kind = "absent"
    /\ Mutate(p, [fs[p] EXCEPT !.kind = "file"])

CreateDir(p) ==
    /\ fs[p].kind = "absent"
    /\ Mutate(p, [fs[p] EXCEPT !.kind = "dir"])

CreateSymlink(p, t) ==
    /\ fs[p].kind = "absent"
    /\ Mutate(p, [fs[p] EXCEPT !.kind = "symlink", !.target = t])

Remove(p) ==
    /\ fs[p].kind # "absent"
    /\ Mutate(p, [fs[p] EXCEPT !.kind = "absent", !.target = 0])

SetFault(p, e) ==
    Mutate(p, [fs[p] EXCEPT !.fault = e])

FsNext ==
    \/ \E p \in Paths : CallExistsSymlink(p)
    \/ FollowExists
    \/ ReturnExistsSymlink
    \/ \E p \in Paths : CreateFile(p)
    \/ \E p \in Paths : CreateDir(p)
    \/ \E p \in Paths, t \in Paths : CreateSymlink(p, t)
    \/ \E p \in Paths : Remove(p)
    \/ \E p \in Paths, e \in Faults \cup {"none"} : SetFault(p, e)


(***************************************************************************)
(* Bind and Hold                                                           *)
(***************************************************************************)

\* Longest String or Vec the caller passes in.
MaxLen == 1

\* Longest value of the RwLock on which a write guard is still bound.
MaxData == 2

Chars == {"h", "H"}

\* Stands for the text the closures of the tests append (", World").
World == <<"w">>

RECURSIVE SeqsUpTo(_, _)
SeqsUpTo(S, n) ==
    IF n = 0 THEN {<<>>}
    ELSE LET shorter == SeqsUpTo(S, n - 1)
         IN  shorter \cup {Append(q, x) : q \in {r \in shorter : Len(r) = n - 1}, x \in S}

Str(s) == [t |-> "str", s |-> s]
Vec(s) == [t |-> "vec", s |-> s]
U32(n) == [t |-> "int", s |-> <<n>>]
Unit == [t |-> "unit", s |-> <<>>]
Guard == [t |-> "guard", s |-> <<>>]
NoValue == [t |-> "none", s |-> <<>>]

Strings == {Str(s) : s \in SeqsUpTo(Chars, MaxLen)}
Vecs == {Vec(s) : s \in SeqsUpTo({1, 2}, MaxLen)}

\* s.to_ascii_uppercase()
ToAsciiUppercase(s) == [i \in 1..Len(s) |-> IF s[i] = "h" THEN "H" ELSE s[i]]

\* w.retain(|c| !c.is_uppercase())
RECURSIVE Retain(_)
Retain(s) ==
    IF s = <<>> THEN <<>>
    ELSE IF Head(s) = "H" THEN Retain(Tail(s))
    ELSE <<Head(s)>> \o Retain(Tail(s))

\* val.into_iter().sum::<u32>() (the sums of the model are far below 2^32)
RECURSIVE Sum(_)
Sum(s) == IF s = <<>> THEN 0 ELSE Head(s) + Sum(Tail(s))

NoEnv ==
    [buf |-> <<>>, out |-> <<>>, data |-> <<>>, writer |-> FALSE,
     poisoned |-> FALSE, calls |-> <<>>]

\* What a closure call gives: it returned r, or it panicked with payload p,
\* and in both cases left the world as e.
Returns(r, e) == [panicked |-> FALSE, payload |-> "none", ret |-> r, env |-> e]
Panics(p, e) == [panicked |-> TRUE, payload |-> p, ret |-> NoValue, env |-> e]

\* A write guard goes out of scope: the lock is released, and poisoned if
\* that happens while a panic unwinds.
DropGuard(e, unwinding) ==
    [e EXCEPT !.writer = FALSE, !.poisoned = e.poisoned \/ unwinding]

Invoked(f, x, e) == [e EXCEPT !.calls = Append(e.calls, [f |-> f, arg |-> x])]

\* The closures bind is called with, F: FnOnce(Self) -> R, applied to x:
\* those of the documentation and the tests, and two that can panic
\* ("first" unwraps the first char, "guard_remove_first" removes it).
BindFns ==
    {"to_ascii_uppercase", "format_world", "sum", "id", "first",
     "retain_push", "guard_remove_first"}

BindTyped(x, f) ==
    \/ x.t = "str" /\ f \in {"to_ascii_uppercase", "format_world", "id", "first"}
    \/ x.t = "vec" /\ f \in {"sum", "id"}
    \/ x.t = "guard" /\ f \in {"retain_push", "id", "guard_remove_first"}

CallOnce(f, x, e0) ==
    LET e == Invoked(f, x, e0)
    IN  CASE f = "to_ascii_uppercase" -> Returns(Str(ToAsciiUppercase(x.s)), e)
          [] f = "format_world" -> Returns(Str(x.s \o World), e)
          [] f = "sum" -> Returns(U32(Sum(x.s)), e)
          [] f = "id" -> Returns(x, e)
          [] f = "first" ->
                IF x.s = <<>> THEN Panics("unwrap on None", e)
                ELSE Returns(Str(<<Head(x.s)>>), e)
          [] f = "retain_push" ->
                Returns(Unit, DropGuard([e EXCEPT !.data = Retain(e.data) \o World],
                                        FALSE))
          [] f = "guard_remove_first" ->
                IF e.data = <<>> THEN Panics("cannot remove a char", DropGuard(e, TRUE))
                ELSE Returns(Unit, DropGuard([e EXCEPT !.data = Tail(e.data)], FALSE))

\* The closures hold_ref is called with, F: FnOnce(&Self), applied to &x.
HoldRefFns == {"println", "buf_push_str", "buf_push_first"}

CallOnceRef(f, x, e0) ==
    LET e == Invoked(f, x, e0)
    IN  CASE f = "println" -> Returns(Unit, [e EXCEPT !.out = Append(e.out, x.s)])
          [] f = "buf_push_str" -> Returns(Unit, [e EXCEPT !.buf = e.buf \o x.s])
          [] f = "buf_push_first" ->
                IF x.s = <<>> THEN Panics("unwrap on None", e)
                ELSE Returns(Unit, [e EXCEPT !.buf = Append(e.buf, Head(x.s))])

\* The closures hold is called with, F: FnOnce(&mut Self), applied to &mut x:
\* "self" is the referent as the closure leaves it.
HoldFns == {"push_str_world", "remove_first"}

CallOnceMut(f, x, e0) ==
    LET e == Invoked(f, x, e0)
    IN  CASE f = "push_str_world" ->
                [Returns(Unit, e) EXCEPT !.ret = Str(x.s \o World)]
          [] f = "remove_first" ->
                IF x.s = <<>> THEN Panics("cannot remove a char", e)
                ELSE [Returns(Unit, e) EXCEPT !.ret = Str(Tail(x.s))]

\* fn bind(self, f) -> R { f(self) }
\* The variants: self is returned as hold does, a panic of f is swallowed,
\* self is dropped without f being called.
BindReturnsSelf(self, f, e) ==
    LET r == CallOnce(f, self, e)
    IN  IF r.panicked THEN r ELSE Returns(self, r.env)
BindCatches(self, f, e) ==
    LET r == CallOnce(f, self, e)
    IN  IF r.panicked THEN Returns(Unit, r.env) ELSE r
BindDropsSelf(self, f, e) ==
    Returns(Unit, IF self = Guard THEN DropGuard(e, FALSE) ELSE e)
Bind(self, f, e) == CallOnce(f, self, e)

\* fn hold_ref(self, f) -> Self { f(&self); self }
\* The variant never calls f.
HoldRefSkipsF(self, f, e) == Returns(self, e)
HoldRef(self, f, e) ==
    LET r == CallOnceRef(f, self, e)
    IN  IF r.panicked THEN r ELSE Returns(self, r.env)

\* fn hold(mut self, f) -> Self { f(&mut self); self }
\* The variant lets f work on a copy and returns the original.
HoldOnCopy(self, f, e) ==
    LET r == CallOnceMut(f, self, e)
    IN  IF r.panicked THEN r ELSE Returns(self, r.env)
Hold(self, f, e) ==
    LET r == CallOnceMut(f, self, e)
    IN  IF r.panicked THEN r ELSE Returns(r.ret, r.env)

CombInit ==
    /\ env = NoEnv
    /\ env0 = NoEnv
    /\ cpc = "idle"
    /\ op = "none"
    /\ arg = NoValue
    /\ fn = "none"
    /\ ret = NoValue
    /\ payload = "none"
    /\ observed = NoValue

\* The caller's position and registers after a combinator call gave r.
After(name, x, f, e, r) ==
    /\ op' = name
    /\ arg' = x
    /\ fn' = f
    /\ env0' = e
    /\ env' = r.env
    /\ ret' = r.ret
    /\ payload' = r.payload
    /\ cpc' = IF r.panicked THEN "panicked" ELSE "returned"
    /\ UNCHANGED <<observed, exceptComb>>

\* value.bind(f), for a String or a Vec
CallBind(x, f) ==
    /\ cpc = "idle"
    /\ BindTyped(x, f)
    /\ After("bind", x, f, env, Bind(x, f, env))

\* rwlock.write().unwrap().bind(f): the guard the caller holds is passed on
CallBindGuard(f) ==
    /\ cpc = "idle"
    /\ env.writer
    /\ Len(env.data) <= MaxData
    /\ BindTyped(Guard, f)
    /\ After("bind", Guard, f, env, Bind(Guard, f, env))

\* value.hold_ref(f), b being the String the closure has captured
CallHoldRef(x, f, b) ==
    /\ cpc = "idle"
    /\ LET e == [env EXCEPT !.buf = b.s]
       IN  After("hold_ref", x, f, e, HoldRef(x, f, e))

\* value.hold(f)
CallHold(x, f) ==
    /\ cpc = "idle"
    /\ After("hold", x, f, env, Hold(x, f, env))

\* let rwlock = RwLock::new(s)
NewLock(s) ==
    /\ cpc = "idle"
    /\ ~env.writer
    /\ env' = [env EXCEPT !.data = s.s, !.poisoned = FALSE]
    /\ UNCHANGED <<env0, cpc, op, arg, fn, ret, payload, observed, exceptComb>>

\* rwlock.write().unwrap(): blocks while a guard is alive
LockWrite ==
    /\ cpc = "idle"
    /\ ~env.writer
    /\ ~env.poisoned
    /\ env' = [env EXCEPT !.writer = TRUE]
    /\ UNCHANGED <<env0, cpc, op, arg, fn, ret, payload, observed, exceptComb>>

\* *rwlock.read().unwrap(): blocks while a write guard is alive
LockRead ==
    /\ cpc \in {"idle", "returned"}
    /\ ~env.writer
    /\ ~env.poisoned
    /\ observed' = Str(env.data)
    /\ cpc' = "read"
    /\ UNCHANGED <<env, env0, op, arg, fn, ret, payload, exceptComb>>

\* The caller drops a write guard it got back.
LetGoGuard ==
    /\ cpc = "idle"
    /\ env.writer
    /\ env' = DropGuard(env, FALSE)
    /\ UNCHANGED <<env0, cpc, op, arg, fn, ret, payload, observed, exceptComb>>

\* The caller goes on: its registers are forgotten, the captured String and
\* the call's log with them; the lock stays.
Resume ==
    /\ cpc \in {"returned", "panicked", "read"}
    /\ cpc' = "idle"
    /\ env' = [env EXCEPT !.buf = <<>>, !.out = <<>>, !.calls = <<>>]
    /\ env0' = NoEnv
    /\ op' = "none"
    /\ arg' = NoValue
    /\ fn' = "none"
    /\ ret' = NoValue
    /\ payload' = "none"
    /\ observed' = NoValue
    /\ UNCHANGED exceptComb

CombNext ==
    \/ \E x \in Strings \cup Vecs, f \in BindFns : CallBind(x, f)
    \/ \E f \in BindFns : CallBindGuard(f)
    \/ \E x \in Strings, f \in HoldRefFns, b \in Strings : CallHoldRef(x, f, b)
    \/ \E x \in Strings, f \in HoldFns : CallHold(x, f)
    \/ \E s \in Strings : NewLock(s)
    \/ LockWrite
    \/ LockRead
    \/ LetGoGuard
    \/ Resume

(***************************************************************************)
(* HashCode                                                                *)
(***************************************************************************)

\* Longest String or Vec the caller hashes.
MaxHashLen == 1

\* The caller's two bindings (val1 and val2 of the tests).
Slots == {1, 2}

RECURSIVE Pow2(_)
Pow2(n) == IF n = 0 THEN 1 ELSE 2 * Pow2(n - 1)

\* A u64 is four 16-bit limbs, the least significant first.
Limb == Pow2(16)

Zero64 == <<0, 0, 0, 0>>

RECURSIVE XorBits(_, _, _)
XorBits(a, b, n) ==
    IF n = 0 THEN 0
    ELSE ((a + b) % 2) + 2 * XorBits(a \div 2, b \div 2, n - 1)

Xor64(a, b) == [i \in 1..4 |-> XorBits(a[i], b[i], 16)]

\* wrapping_add
Add64(a, b) ==
    LET c1 == a[1] + b[1]
        c2 == a[2] + b[2] + (c1 \div Limb)
        c3 == a[3] + b[3] + (c2 \div Limb)
        c4 == a[4] + b[4] + (c3 \div Limb)
    IN  <<c1 % Limb, c2 % Limb, c3 % Limb, c4 % Limb>>

\* rotate_left
Rotl64(a, k) ==
    LET q == k \div 16
        r == k % 16
        from(i) == a[((i - 1 - q) % 4) + 1]
    IN  [i \in 1..4 |->
           (from(i) % Pow2(16 - r)) * Pow2(r) + (from(i - 1) \div Pow2(16 - r))]

\* u64::from_le_bytes of eight bytes
FromLeBytes(b) == [i \in 1..4 |-> b[2 * i - 1] + 256 * b[2 * i]]

\* F applied to the value of x.
Apply(F(_), x) == CHOOSE r \in {F(y) : y \in {x}} : TRUE

\* One SipRound of std's SipHasher13 on the state <<v0, v1, v2, v3>>, in
\* four steps:
\*   v0 += v1; v1 = rotl(v1, 13); v1 ^= v0; v0 = rotl(v0, 32)
SipRoundA(v) ==
    LET s == Add64(v[1], v[2])
    IN  <<Rotl64(s, 32), Xor64(Rotl64(v[2], 13), s), v[3], v[4]>>

\*   v2 += v3; v3 = rotl(v3, 16); v3 ^= v2
SipRoundB(v) ==
    LET s == Add64(v[3], v[4])
    IN  <<v[1], v[2], s, Xor64(Rotl64(v[4], 16), s)>>

\*   v0 += v3; v3 = rotl(v3, 21); v3 ^= v0
SipRoundC(v) ==
    LET s == Add64(v[1], v[4])
    IN  <<s, v[2], v[3], Xor64(Rotl64(v[4], 21), s)>>

\*   v2 += v1; v1 = rotl(v1, 17); v1 ^= v2; v2 = rotl(v2, 32)
SipRoundD(v) ==
    LET s == Add64(v[3], v[2])
    IN  <<v[1], Xor64(Rotl64(v[2], 17), s), Rotl64(s, 32), v[4]>>

SipRound(v) ==
    Apply(SipRoundD, Apply(SipRoundC, Apply(SipRoundB, Apply(SipRoundA, v))))

\* The state absorbs one 8-byte word m (c_rounds = 1).
XorInto(v, i, m) == [v EXCEPT ![i] = Xor64(v[i], m)]

Compress(v, m) ==
    Apply(LAMBDA w : XorInto(w, 1, m), SipRound(XorInto(v, 4, m)))

\* DefaultHasher::new(): SipHasher13 with the keys (0, 0); "tail" holds the
\* bytes not yet absorbed and "length" counts the bytes written.
HasherOf(k0, k1) ==
    [v |-> <<Xor64(k0, <<25973, 28787, 28005, 29551>>),
             Xor64(k1, <<28525, 28260, 29281, 25711>>),
             Xor64(k0, <<29281, 28261, 26469, 27769>>),
             Xor64(k1, <<25971, 31092, 25698, 29797>>)>>,
     tail |-> <<>>,
     length |-> 0]

DefaultHasherNew == HasherOf(Zero64, Zero64)

\* Hasher::write of one byte
WriteByte(h, byte) ==
    LET t == Append(h.tail, byte)
    IN  IF Len(t) = 8
        THEN [v |-> Compress(h.v, FromLeBytes(t)), tail |-> <<>>,
              length |-> h.length + 1]
        ELSE [h EXCEPT !.tail = t, !.length = h.length + 1]

\* Hasher::write
RECURSIVE Write(_, _)
Write(h, bytes) ==
    IF bytes = <<>> THEN h
    ELSE Apply(LAMBDA g : Write(g, Tail(bytes)),
               Apply(LAMBDA g : WriteByte(g, Head(bytes)), h))

\* Hasher::finish: the last word is the tail, zero-padded, with the length
\* modulo 256 as its top byte (d_rounds = 3).
LastWord(h) ==
    FromLeBytes(Append([i \in 1..7 |-> IF i <= Len(h.tail) THEN h.tail[i] ELSE 0],
                       h.length % 256))

XorAll(w) == Xor64(Xor64(w[1], w[2]), Xor64(w[3], w[4]))

Finish(h) ==
    Apply(XorAll,
      Apply(SipRound, Apply(SipRound, Apply(SipRound,
        Apply(LAMBDA v : XorInto(v, 3, <<255, 0, 0, 0>>),
          Apply(LAMBDA g : Compress(g.v, Apply(LastWord, g)), h))))))

\* The little-endian bytes of n as an n-byte two's complement integer.
RECURSIVE LeBytes(_, _)
LeBytes(n, width) ==
    IF width = 0 THEN <<>>
    ELSE <<n % 256>> \o LeBytes((n - (n % 256)) \div 256, width - 1)

RECURSIVE Flatten(_)
Flatten(ss) == IF ss = <<>> THEN <<>> ELSE Head(ss) \o Flatten(Tail(ss))

Usize(n) == [t |-> "usize", s |-> <<n>>]
Isize(n) == [t |-> "isize", s |-> <<n>>]

\* The bytes the value's Hash impl writes to the hasher: an integer its
\* native-endian bytes, a String its UTF-8 bytes and 0xff, a Vec<i32> its
\* length as a usize and then its elements.  The address of the value is no
\* part of them (the variant writes it too, as hashing the reference as a
\* pointer would).
HashBytesWithAddress(x, addr) ==
    LeBytes(addr, 8) \o
    ( CASE x.t \in {"usize", "isize"} -> LeBytes(x.s[1], 8)
        [] x.t = "str" -> x.s \o <<255>>
        [] x.t = "vec" ->
             LeBytes(Len(x.s), 8) \o Flatten([i \in 1..Len(x.s) |-> LeBytes(x.s[i], 4)]) )
HashBytes(x, addr) ==
    CASE x.t \in {"usize", "isize"} -> LeBytes(x.s[1], 8)
      [] x.t = "str" -> x.s \o <<255>>
      [] x.t = "vec" ->
           LeBytes(Len(x.s), 8) \o Flatten([i \in 1..Len(x.s) |-> LeBytes(x.s[i], 4)])

\* fn hashcode(&self) -> u64: the digest, and the value as the call leaves it.
HashCode(x, addr) ==
    [code |-> Finish(Write(DefaultHasherNew, Apply(LAMBDA y : HashBytes(y, addr), x))),
     self |-> x]

\* The values the caller hashes; a String is its UTF-8 bytes ("H", "h").
Hashables ==
    {Usize(0), Usize(12), Isize(-1), Isize(12)}
    \cup {Str(s) : s \in SeqsUpTo({72, 104}, MaxHashLen)}
    \cup {Vec(s) : s \in SeqsUpTo({1, -2}, MaxHashLen)}

HashInit ==
    /\ held = [i \in Slots |-> NoValue]
    /\ assigned = [i \in Slots |-> NoValue]
    /\ codes = [i \in Slots |-> {}]

\* let val = <value>: the slot is assigned (the value lives at the slot's
\* address, so equal values in two slots are two objects).
Assign(i, x) ==
    /\ held[i] # x
    /\ held' = [held EXCEPT ![i] = x]
    /\ assigned' = [assigned EXCEPT ![i] = x]
    /\ codes' = [codes EXCEPT ![i] = {}]
    /\ UNCHANGED exceptHash

\* val.hashcode()
CallHashCode(i) ==
    /\ held[i] # NoValue
    /\ LET r == HashCode(held[i], i)
       IN  /\ codes' = [codes EXCEPT ![i] = codes[i] \cup {r.code}]
           /\ held' = [held EXCEPT ![i] = r.self]
    /\ UNCHANGED <<assigned, exceptHash>>

HashNext ==
    \/ \E i \in Slots, x \in Hashables : Assign(i, x)
    \/ \E i \in Slots : CallHashCode(i)

Init == FsInit /\ CombInit /\ HashInit

SpecFs == Init /\ [][FsNext]_vars

SpecComb == Init /\ [][CombNext]_vars

SpecHash == Init /\ [][HashNext]_vars

(***************************************************************************)
(* Properties of exists_symlink                                            *)
(***************************************************************************)

Returned == pc = "done"

Quiet == pc = "done" /\ ~changed

Asked(q) == \E i \in 1..Len(queries) : queries[i].q = q

Succeeded(q) == \E i \in 1..Len(queries) : queries[i].q = q /\ queries[i].ok

\* C1: exists_symlink(path) is true exactly when the no-follow metadata query
\* succeeds and (the entry is a symlink or the following existence check
\* succeeds): both of the queries the call issued, and, when the filesystem
\* stood still during the call, of the filesystem itself.
C1_ExistsSymlinkIff ==
    /\ Returned =>
          (result.value <=>
             Succeeded("lstat") /\ (lstatRes.is_symlink \/ Succeeded("stat")))
    /\ Quiet =>
          (result.value <=>
             Lstat(fs, callPath).ok
               /\ (fs[callPath].kind = "symlink" \/ Stat(fs, callPath).ok))

C1_Witness ==
    /\ Quiet
    /\ result.value
    /\ fs[callPath].kind = "file"
    /\ Len(queries) = 2

\* C2 as stated: in every filesystem state, (a) nothing at the path gives
\* false, (b) a regular file, (c) a symlink whose target exists, (d) a
\* dangling symlink, for which exists() is false, and (e) a directory all
\* give true.
C2_ScenariosAsStated ==
    Quiet =>
      /\ entry0.kind = "absent" => ~result.value
      /\ entry0.kind = "file" => result.value
      /\ entry0.kind = "dir" => result.value
      /\ (entry0.kind = "symlink" /\ fs[entry0.target].kind # "absent")
            => result.value
      /\ (entry0.kind = "symlink" /\ fs[entry0.target].kind = "absent")
            => result.value /\ ~stat0.ok

\* C2, amended: the same five scenarios, (b) to (e) for a path whose own
\* lookup is not refused (no permission or I/O failure on the path itself).
C2_Scenarios ==
    Quiet =>
      /\ entry0.kind = "absent" => ~result.value
      /\ entry0.fault = "none" =>
            /\ entry0.kind = "file" => result.value
            /\ entry0.kind = "dir" => result.value
            /\ (entry0.kind = "symlink" /\ fs[entry0.target].kind # "absent")
                  => result.value
            /\ (entry0.kind = "symlink" /\ fs[entry0.target].kind = "absent")
                  => result.value /\ ~stat0.ok

C2_Witness ==
    /\ Quiet
    /\ entry0.kind = "symlink"
    /\ entry0.fault = "none"
    /\ fs[entry0.target] = NoEntry
    /\ result.value
    /\ ~Exists(fs, callPath)

\* C8: exists_symlink raises nothing, and a failed metadata query, whatever
\* its cause, gives false.
C8_FailuresAreFalse ==
    Returned =>
      /\ ~result.raised
      /\ ~lstatRes.ok => ~result.value
      /\ (Asked("stat") /\ ~Succeeded("stat")) => ~result.value
      /\ (~changed /\ ~Lstat(fs, callPath).ok) => ~result.value

C8_Witness ==
    /\ Quiet
    /\ fs[callPath].kind = "file"
    /\ lstatRes.err = "EACCES"
    /\ result = [raised |-> FALSE, value |-> FALSE]

\* The queries of a call: the no-follow one first, the following one second
\* and only after the first succeeded and reported no symlink.
QueryOrder ==
    /\ Len(queries) \in {1, 2}
    /\ queries[1].q = "lstat"
    /\ Len(queries) = 2 =>
          queries[2].q = "stat" /\ lstatRes.ok /\ ~lstatRes.is_symlink

\* C10 as stated: while the filesystem stands still, exists() implies
\* exists_symlink(), the two differ only for a dangling symlink (its target
\* is missing), and a call issues one or two queries, the following one only
\* after the no-follow one succeeded and reported no symlink.
C10_NeverStricterAsStated ==
    /\ Quiet => (stat0.ok => result.value)
    /\ Quiet => (result.value # stat0.ok =>
                   entry0.kind = "symlink" /\ stat0.err = "ENOENT")
    /\ pc # "idle" => QueryOrder

\* C10, amended: the two differ only for a symlink that the following query
\* cannot resolve (target missing, refused, or a loop of symlinks).
C10_NeverStricter ==
    /\ Quiet => (stat0.ok => result.value)
    /\ Quiet => (result.value # stat0.ok =>
                   entry0.kind = "symlink" /\ entry0.fault = "none" /\ ~stat0.ok)
    /\ pc # "idle" => QueryOrder

C10_Witness ==
    /\ Quiet
    /\ entry0.kind = "symlink"
    /\ stat0.ok
    /\ result.value
    /\ Len(queries) = 1

(***************************************************************************)
(* Properties of bind, hold_ref and hold                                   *)
(***************************************************************************)

ReturnedFrom(name) == op = name /\ cpc = "returned"

InvokedOnce == env.calls = <<[f |-> fn, arg |-> arg]>>

\* What calling the closure directly, in the world of the call, gives.
Direct ==
    CASE op = "bind" -> CallOnce(fn, arg, env0)
      [] op = "hold_ref" -> CallOnceRef(fn, arg, env0)
      [] op = "hold" -> CallOnceMut(fn, arg, env0)

\* C3: bind(v, f) invokes f exactly once, with v, and returns what f(v)
\* returns; the world is left as f(v) alone leaves it.
C3_BindIsApplication ==
    ReturnedFrom("bind") =>
      /\ InvokedOnce
      /\ ret = Direct.ret
      /\ env = Direct.env
      /\ fn = "format_world" => ret = Str(arg.s \o World)
      /\ fn = "sum" => ret = U32(Sum(arg.s))
      /\ fn = "id" => ret = arg
      /\ fn \in {"to_ascii_uppercase", "format_world", "sum", "id", "first"}
           => env = [env0 EXCEPT !.calls = env.calls]

C3_Witness ==
    /\ ReturnedFrom("bind")
    /\ fn = "format_world"
    /\ arg = Str(<<"H">>)
    /\ ret = Str(<<"H", "w">>)

\* C4: hold(v, f) invokes f exactly once, with a mutable reference to v,
\* before it returns, and returns v as f's mutation left it, not what f
\* returned.
C4_HoldReturnsMutated ==
    ReturnedFrom("hold") =>
      /\ InvokedOnce
      /\ ret = Direct.ret
      /\ ret # Unit
      /\ fn = "push_str_world" => ret = Str(arg.s \o World)
      /\ fn = "remove_first" => ret = Str(Tail(arg.s))
      /\ env = [env0 EXCEPT !.calls = env.calls]

C4_Witness ==
    /\ ReturnedFrom("hold")
    /\ fn = "push_str_world"
    /\ arg = Str(<<"h">>)
    /\ ret = Str(<<"h", "w">>)

\* C5: hold_ref(v, f) returns v unchanged and invokes f exactly once with a
\* reference to v, so that f's effects on other state have happened when
\* hold_ref returns.
C5_HoldRefReturnsSelf ==
    ReturnedFrom("hold_ref") =>
      /\ ret = arg
      /\ InvokedOnce
      /\ env = Direct.env
      /\ fn = "buf_push_str" => env.buf = env0.buf \o arg.s
      /\ fn = "buf_push_first" => env.buf = Append(env0.buf, Head(arg.s))
      /\ fn = "println" => env.out = Append(env0.out, arg.s)

C5_Witness ==
    /\ ReturnedFrom("hold_ref")
    /\ fn = "buf_push_str"
    /\ arg = Str(<<"H">>)
    /\ env0.buf = <<"h">>
    /\ env.buf = <<"h", "H">>
    /\ ret = arg

\* What f's in-place work does to the value behind the guard.
Mutated(f, data) ==
    CASE f = "retain_push" -> Retain(data) \o World
      [] f = "guard_remove_first" -> Tail(data)
      [] OTHER -> data

C9_FailurePropagates ==
    /\ cpc = "panicked" =>
         /\ Direct.panicked
         /\ payload = Direct.payload
         /\ ret = NoValue
         /\ InvokedOnce
    /\ (cpc = "returned" /\ op # "none") =>
         /\ ~Direct.panicked
         /\ payload = "none"
         /\ ret # NoValue

C9_Witness ==
    /\ cpc = "panicked"
    /\ op = "hold"
    /\ fn = "remove_first"
    /\ payload = "cannot remove a char"
    /\ ret = NoValue

(***************************************************************************)
(* Properties of hashcode                                                  *)
(***************************************************************************)

\* The digest of String::from("HashCode") that the documentation of
\* hashcode asserts: 17255704455115175831.
HashCodeDocExample ==
    HashCode(Str(<<72, 97, 115, 104, 67, 111, 100, 101>>), 1).code
      = <<63383, 64579, 37830, 61304>>

\* C7: structurally equal values have equal digests, wherever they live;
\* calling hashcode again on an unchanged value gives the same digest; and
\* hashcode leaves the value as it was.
C7_HashDeterministic ==
    /\ \A i \in Slots : Cardinality(codes[i]) <= 1
    /\ \A i, j \in Slots : held[i] = held[j] => \A c \in codes[i], d \in codes[j] : c = d
    /\ \A i \in Slots : held[i] = assigned[i]

C7_Witness ==
    /\ held[1] = Vec(<<-2>>)
    /\ held[2] = Vec(<<-2>>)
    /\ codes[1] # {}
    /\ codes[1] = codes[2]

====
